---- MODULE Spec2Model ----
(***************************************************************************)
(* Model of display.py: load mel_ratios.txt and nv_ratios.txt, overlay two *)
(* 50-bin histograms over the range (0, 0.05), save ratio_distribution.png *)
(* and close the figure.                                                   *)
(*                                                                         *)
(* Ratio values are fixed-point integers in ticks of 0.0005, so that the   *)
(* range (0, 0.05) is 0..100 ticks and each of the 50 bins is 2 ticks wide.*)
(* A script run is followed by further runs (Invoke); between two runs the *)
(* environment makes at most one change: it swaps two rows, renames an     *)
(* identifier or deletes the output file.                                  *)
(* An uncaught exception ends the interpreter, so the run after a failure  *)
(* starts with fresh pyplot state; the run after a success keeps it.       *)
(***************************************************************************)
EXTENDS Integers, Sequences, FiniteSets, TLC

VARIABLES fs, start, pc, mel_data, nv_data, figures, cur, status, run, edited, log

vars == <<fs, start, pc, mel_data, nv_data, figures, cur, status, run, edited, log>>

(* ---------------------------- bounds ---------------------------------- *)
MaxRecords == 2      \* total number of rows over both input files
MaxRuns == 2         \* number of script runs in one behaviour

(* ------------------------ program constants --------------------------- *)
Bins == 50           \* bins=50
RangeLo == 0         \* range=(0, 0.05), lower edge, in ticks
RangeHi == 100       \* range=(0, 0.05), upper edge, in ticks of 0.0005

MEL == "mel_ratios.txt"
NV == "nv_ratios.txt"
PNG == "ratio_distribution.png"

FileNames == {MEL, NV, PNG}

\* ratio values the input files draw from: below the range, the lower edge,
\* an interior value, the upper edge (0.05 itself), above the range
Ratios == {RangeLo - 1, RangeLo, 37, RangeHi, RangeHi + 1}

Ids == {"img1", "img2"}

(* ----------------------------- files ---------------------------------- *)
BlankFigure ==
  [series |-> <<>>, xlim |-> <<>>, xlabel |-> "", ylabel |-> "",
   title |-> "", legend |-> <<>>, figsize |-> <<>>]

StaleImage == [BlankFigure EXCEPT !.title = "stale"]

Absent == [kind |-> "absent", rows |-> <<>>, image |-> BlankFigure]
Directory == [kind |-> "dir", rows |-> <<>>, image |-> BlankFigure]
TextFile(rows) == [kind |-> "text", rows |-> rows, image |-> BlankFigure]
PngFile(image) == [kind |-> "png", rows |-> <<>>, image |-> image]

\* all sequences over S of length at most n
RECURSIVE SeqsUpTo(_, _)
SeqsUpTo(S, n) ==
  IF n = 0 THEN {<<>>}
  ELSE LET shorter == SeqsUpTo(S, n - 1)
       IN shorter \cup {Append(s, x) : s \in {t \in shorter : Len(t) = n - 1}, x \in S}

\* the lines "identifier,ratio" of a file, as pairs
LinesOf(vals) == [i \in DOMAIN vals |-> <<"img1", vals[i]>>]

InputContents(R, n) == {Absent} \cup {TextFile(LinesOf(v)) : v \in SeqsUpTo(R, n)}

RowCount(f) == Len(f.rows)

(* ------------------------- pd.read_csv -------------------------------- *)
\* variant: header=0, the first line is consumed as the header row
ReadCsvHeader(lines) ==
  [i \in 1..(Len(lines) - 1) |-> [image |-> lines[i + 1][1], ratio |-> lines[i + 1][2]]]

\* header=None: the first line is data; names=['image', 'ratio']
ReadCsv(lines) == [i \in DOMAIN lines |-> [image |-> lines[i][1], ratio |-> lines[i][2]]]

\* variant: rows that repeat an earlier identifier are dropped first
RatioColumnDedup(data) ==
  LET keep == {i \in DOMAIN data : \A j \in 1..(i - 1) : data[j].image # data[i].image}
      Rank(i) == Cardinality({j \in keep : j <= i})
  IN [k \in 1..Cardinality(keep) |-> data[CHOOSE i \in keep : Rank(i) = k].ratio]

\* data['ratio']
RatioColumn(data) == [i \in DOMAIN data |-> data[i].ratio]

(* ------------------- plt.hist / numpy.histogram ----------------------- *)
\* variant: the upper edge is left out
InRangeHalfOpen(v) == v >= RangeLo /\ v < RangeHi

\* keep = (a >= first_edge) & (a <= last_edge)
InRange(v) == v >= RangeLo /\ v <= RangeHi

\* bin_edges = linspace(first_edge, last_edge, bins + 1)
BinEdge(i) == RangeLo + (i * (RangeHi - RangeLo)) \div Bins

\* variant: the index of the upper edge is not folded into the last bin
BinIndexNoFold(v) ==
  LET f == ((v - RangeLo) * Bins) \div (RangeHi - RangeLo)
      i1 == IF v < BinEdge(f) THEN f - 1 ELSE f
  IN IF v >= BinEdge(i1 + 1) /\ i1 # Bins - 1 THEN i1 + 1 ELSE i1

\* index of the bin of an in-range value, as numpy computes it for
\* equal-width bins
BinIndex(v) ==
  LET f == ((v - RangeLo) * Bins) \div (RangeHi - RangeLo)
      i0 == IF f = Bins THEN f - 1 ELSE f
      i1 == IF v < BinEdge(i0) THEN i0 - 1 ELSE i0
  IN IF v >= BinEdge(i1 + 1) /\ i1 # Bins - 1 THEN i1 + 1 ELSE i1

Histogram(vals) ==
  [b \in 0..(Bins - 1) |->
     Cardinality({i \in DOMAIN vals : InRange(vals[i]) /\ BinIndex(vals[i]) = b})]

Series(label, color, vals) ==
  [label |-> label, color |-> color, alpha |-> "0.5", counts |-> Histogram(vals)]

\* plt.legend(): one entry per labelled artist of the current axes
LegendOf(fig) == [i \in DOMAIN fig.series |-> fig.series[i].label]

(* ----------------------------- Init ----------------------------------- *)
\* the interpreter starts the script in a working directory whose input
\* files hold ratio values of R
InitWith(R) ==
  /\ \E m \in InputContents(R, MaxRecords), n \in InputContents(R, MaxRecords),
        p \in {Absent, Directory, PngFile(StaleImage)} :
       /\ RowCount(m) + RowCount(n) <= MaxRecords
       /\ fs = [f \in FileNames |->
                  IF f = MEL THEN m ELSE IF f = NV THEN n ELSE p]
  /\ start = fs
  /\ pc = "load_mel"
  /\ mel_data = <<>>
  /\ nv_data = <<>>
  /\ figures = [n \in {} |-> BlankFigure]
  /\ cur = 0
  /\ status = -1
  /\ run = 1
  /\ edited = FALSE
  /\ log = <<>>

Init == InitWith(Ratios)

\* the steps a run takes do not depend on the ratio values: one value inside
\* and one outside the range
InitTwoValues == InitWith({RangeLo - 1, RangeHi})

(* --------------------------- the script ------------------------------- *)
\* an uncaught exception: the interpreter exits with a non-zero status
Raise ==
  /\ pc' = "failed"
  /\ status' = 1
  /\ log' = Append(log, [mel |-> fs[MEL], nv |-> fs[NV], status |-> 1,
                          before |-> start[PNG], png |-> fs[PNG]])

\* mel_data = pd.read_csv('mel_ratios.txt', header=None, names=['image', 'ratio'])
LoadMel ==
  /\ pc = "load_mel"
  /\ IF fs[MEL].kind # "text"
       THEN Raise /\ UNCHANGED mel_data
       ELSE /\ mel_data' = ReadCsv(fs[MEL].rows)
            /\ pc' = "load_nv"
            /\ UNCHANGED <<status, log>>
  /\ UNCHANGED <<fs, start, nv_data, figures, cur, run, edited>>

\* variant: a missing file is replaced by an empty dataset
LoadNvFallback ==
  /\ pc = "load_nv"
  /\ nv_data' = IF fs[NV].kind # "text" THEN <<>> ELSE ReadCsv(fs[NV].rows)
  /\ pc' = "figure"
  /\ UNCHANGED <<fs, start, mel_data, figures, cur, status, run, edited, log>>

\* variant: a failed read starts the script over
LoadNvRetry ==
  /\ pc = "load_nv"
  /\ IF fs[NV].kind # "text"
       THEN /\ pc' = "load_mel"
            /\ mel_data' = <<>>
            /\ UNCHANGED nv_data
       ELSE /\ nv_data' = ReadCsv(fs[NV].rows)
            /\ pc' = "figure"
            /\ UNCHANGED mel_data
  /\ UNCHANGED <<fs, start, figures, cur, status, run, edited, log>>

\* nv_data = pd.read_csv('nv_ratios.txt', header=None, names=['image', 'ratio'])
LoadNv ==
  /\ pc = "load_nv"
  /\ IF fs[NV].kind # "text"
       THEN Raise /\ UNCHANGED nv_data
       ELSE /\ nv_data' = ReadCsv(fs[NV].rows)
            /\ pc' = "figure"
            /\ UNCHANGED <<status, log>>
  /\ UNCHANGED <<fs, start, mel_data, figures, cur, run, edited>>

MaxOf(S) == IF S = {} THEN 0 ELSE CHOOSE x \in S : \A y \in S : y <= x

\* plt.figure(figsize=(10, 6)): a new figure, which becomes the current one
NewFigure ==
  /\ pc = "figure"
  /\ LET n == MaxOf(DOMAIN figures) + 1
     IN /\ figures' = [k \in DOMAIN figures \cup {n} |->
                         IF k = n THEN [BlankFigure EXCEPT !.figsize = <<10, 6>>]
                         ELSE figures[k]]
        /\ cur' = n
  /\ pc' = "hist_mel"
  /\ UNCHANGED <<fs, start, mel_data, nv_data, status, run, edited, log>>

\* plt.hist(mel_data['ratio'], bins=50, alpha=0.5, color='red', label='Melanoma', range=(0, 0.05))
HistMel ==
  /\ pc = "hist_mel"
  /\ figures' = [figures EXCEPT ![cur].series =
                   Append(@, Series("Melanoma", "red", RatioColumn(mel_data)))]
  /\ pc' = "hist_nv"
  /\ UNCHANGED <<fs, start, mel_data, nv_data, cur, status, run, edited, log>>

\* variant: an empty dataset is not drawn
HistNvSkipEmpty ==
  /\ pc = "hist_nv"
  /\ figures' = IF nv_data = <<>> THEN figures
                ELSE [figures EXCEPT ![cur].series =
                        Append(@, Series("Normal", "blue", RatioColumn(nv_data)))]
  /\ pc' = "decorate"
  /\ UNCHANGED <<fs, start, mel_data, nv_data, cur, status, run, edited, log>>

\* plt.hist(nv_data['ratio'], bins=50, alpha=0.5, color='blue', label='Normal', range=(0, 0.05))
HistNv ==
  /\ pc = "hist_nv"
  /\ figures' = [figures EXCEPT ![cur].series =
                   Append(@, Series("Normal", "blue", RatioColumn(nv_data)))]
  /\ pc' = "decorate"
  /\ UNCHANGED <<fs, start, mel_data, nv_data, cur, status, run, edited, log>>

\* plt.xlim, plt.xlabel, plt.ylabel, plt.title, plt.legend
Decorate ==
  /\ pc = "decorate"
  /\ figures' = [figures EXCEPT ![cur] =
                   [figures[cur] EXCEPT !.xlim = <<RangeLo, RangeHi>>,
                                        !.xlabel = "Ratio",
                                        !.ylabel = "Frequency",
                                        !.title = "Distribution of Ratios: Melanoma vs Normal",
                                        !.legend = LegendOf(figures[cur])]]
  /\ pc' = "save"
  /\ UNCHANGED <<fs, start, mel_data, nv_data, cur, status, run, edited, log>>

\* variant: an existing output file is kept
SaveKeepExisting ==
  /\ pc = "save"
  /\ IF fs[PNG].kind = "dir"
       THEN Raise /\ UNCHANGED fs
       ELSE /\ fs' = IF fs[PNG].kind = "png" THEN fs
                     ELSE [fs EXCEPT ![PNG] = PngFile(figures[cur])]
            /\ pc' = "close"
            /\ UNCHANGED <<status, log>>
  /\ UNCHANGED <<start, mel_data, nv_data, figures, cur, run, edited>>

\* variant: the figure is written over the first input file
SaveOverInput ==
  /\ pc = "save"
  /\ IF fs[PNG].kind = "dir"
       THEN Raise /\ UNCHANGED fs
       ELSE /\ fs' = [fs EXCEPT ![MEL] = PngFile(figures[cur])]
            /\ pc' = "close"
            /\ UNCHANGED <<status, log>>
  /\ UNCHANGED <<start, mel_data, nv_data, figures, cur, run, edited>>

\* plt.savefig('ratio_distribution.png'): the file is opened for writing and
\* truncated; opening fails when the name cannot be written
Save ==
  /\ pc = "save"
  /\ IF fs[PNG].kind = "dir"
       THEN Raise /\ UNCHANGED fs
       ELSE /\ fs' = [fs EXCEPT ![PNG] = PngFile(figures[cur])]
            /\ pc' = "close"
            /\ UNCHANGED <<status, log>>
  /\ UNCHANGED <<start, mel_data, nv_data, figures, cur, run, edited>>

\* variant: the figure is left open
CloseOmitted ==
  /\ pc = "close"
  /\ pc' = "done"
  /\ status' = 0
  /\ log' = Append(log, [mel |-> fs[MEL], nv |-> fs[NV], status |-> 0,
                          before |-> start[PNG], png |-> fs[PNG]])
  /\ UNCHANGED <<fs, start, mel_data, nv_data, figures, cur, run, edited>>

\* plt.close(): destroys the current figure; the script ends with status 0
Close ==
  /\ pc = "close"
  /\ figures' = [k \in DOMAIN figures \ {cur} |-> figures[k]]
  /\ cur' = MaxOf(DOMAIN figures \ {cur})
  /\ pc' = "done"
  /\ status' = 0
  /\ log' = Append(log, [mel |-> fs[MEL], nv |-> fs[NV], status |-> 0,
                          before |-> start[PNG], png |-> fs[PNG]])
  /\ UNCHANGED <<fs, start, mel_data, nv_data, run, edited>>

(* ------------------ further runs and the environment ------------------ *)
Terminal == {"done", "failed"}

\* the script is run again
Invoke ==
  /\ pc \in Terminal
  /\ run < MaxRuns
  /\ run' = run + 1
  /\ edited' = FALSE
  /\ start' = fs
  /\ pc' = "load_mel"
  /\ status' = -1
  /\ mel_data' = <<>>
  /\ nv_data' = <<>>
  /\ figures' = IF pc = "failed" THEN [n \in {} |-> BlankFigure] ELSE figures
  /\ cur' = IF pc = "failed" THEN 0 ELSE cur
  /\ UNCHANGED <<fs, log>>

Between == pc \in Terminal /\ run < MaxRuns /\ ~edited

Frame == UNCHANGED <<start, pc, mel_data, nv_data, figures, cur, status, run, log>>

\* two adjacent rows of an input file change places
SwapRows ==
  /\ Between
  /\ \E f \in {MEL, NV} : \E i \in 1..(Len(fs[f].rows) - 1) :
       fs' = [fs EXCEPT ![f].rows =
                [k \in DOMAIN @ |-> IF k = i THEN @[i + 1] ELSE IF k = i + 1 THEN @[i] ELSE @[k]]]
  /\ edited' = TRUE
  /\ Frame

\* a row of an input file gets another identifier
Relabel ==
  /\ Between
  /\ \E f \in {MEL, NV} : \E i \in DOMAIN fs[f].rows : \E id \in Ids \ {fs[f].rows[i][1]} :
       fs' = [fs EXCEPT ![f].rows[i] = <<id, @[2]>>]
  /\ edited' = TRUE
  /\ Frame

\* the output file of an earlier run is deleted
RemoveOutput ==
  /\ Between
  /\ fs[PNG].kind = "png"
  /\ fs' = [fs EXCEPT ![PNG] = Absent]
  /\ edited' = TRUE
  /\ Frame

Step == LoadMel \/ LoadNv \/ NewFigure \/ HistMel \/ HistNv \/ Decorate \/ Save \/ Close

Next == Step \/ Invoke \/ SwapRows \/ Relabel \/ RemoveOutput

Spec == Init /\ [][Next]_vars

\* the interpreter runs a started script to its end
FairSpec == InitTwoValues /\ [][Next]_vars /\ WF_vars(Step)

(* ============================ properties ============================== *)
\* the ratio values written in an input file
ValuesOf(file) == [i \in DOMAIN file.rows |-> file.rows[i][2]]

HowMany(vals, S) == Cardinality({i \in DOMAIN vals : vals[i] \in S})

RECURSIVE SumUpTo(_, _)
SumUpTo(counts, b) == IF b < 0 THEN 0 ELSE counts[b] + SumUpTo(counts, b - 1)

Total(counts) == SumUpTo(counts, Bins - 1)

Closed == RangeLo..RangeHi
HalfOpen == RangeLo..(RangeHi - 1)

AllOutside(vals) == \A i \in DOMAIN vals : vals[i] \notin Closed

\* a run has just ended: the last entry of the log is its record
Ended == pc \in Terminal /\ ~edited
Last == log[Len(log)]
Success == Ended /\ Last.status = 0

\* the counts of the two series of the image a successful run wrote
MelCounts(r) == r.png.image.series[1].counts
NvCounts(r) == r.png.image.series[2].counts

Readable(r) == r.mel.kind = "text" /\ r.nv.kind = "text"
Writable(r) == r.before.kind # "dir"

(* C1 as stated: every value >= 0.05 or < 0 is excluded from the counts, so *)
(* the counts of a series add up to the number of values in [0, 0.05).      *)
C1_AsStated ==
  Success =>
    /\ Total(MelCounts(Last)) = HowMany(ValuesOf(Last.mel), HalfOpen)
    /\ Total(NvCounts(Last)) = HowMany(ValuesOf(Last.nv), HalfOpen)

(* C1 amended: every value > 0.05 or < 0 is excluded from all 50 counts, a  *)
(* value equal to 0.05 is counted in the last bin, and a dataset lying      *)
(* entirely outside [0, 0.05] yields 50 zero counts in a run that succeeds. *)
C1_Excluded ==
  /\ Success =>
       /\ Total(MelCounts(Last)) = HowMany(ValuesOf(Last.mel), Closed)
       /\ Total(NvCounts(Last)) = HowMany(ValuesOf(Last.nv), Closed)
       /\ MelCounts(Last)[Bins - 1] >= HowMany(ValuesOf(Last.mel), {RangeHi})
       /\ NvCounts(Last)[Bins - 1] >= HowMany(ValuesOf(Last.nv), {RangeHi})
       /\ AllOutside(ValuesOf(Last.mel)) => \A b \in 0..(Bins - 1) : MelCounts(Last)[b] = 0
       /\ AllOutside(ValuesOf(Last.nv)) => \A b \in 0..(Bins - 1) : NvCounts(Last)[b] = 0
  /\ (/\ Ended /\ Readable(Last) /\ Writable(Last)
      /\ AllOutside(ValuesOf(Last.mel)) \/ AllOutside(ValuesOf(Last.nv)))
     => Last.status = 0

C1_Witness ==
  /\ Success
  /\ Last.mel.rows # <<>>
  /\ AllOutside(ValuesOf(Last.mel))
  /\ HowMany(ValuesOf(Last.nv), {RangeHi}) > 0

(* C2: when mel_ratios.txt or nv_ratios.txt is missing the run fails with a *)
(* non-zero status, never reaches the save step and leaves the output file  *)
(* as it was before the run.                                                *)
C2_MissingInput ==
  (fs[MEL].kind = "absent" \/ fs[NV].kind = "absent")
  => /\ pc \notin {"save", "close", "done"}
     /\ pc = "failed" => status = 1
     /\ Ended => Last.status = 1 /\ Last.png = Last.before /\ fs[PNG] = start[PNG]

C2_Witness ==
  /\ pc = "failed"
  /\ fs[MEL].kind = "text"
  /\ fs[NV].kind = "absent"

(* C3: whatever the number of rows of the two files (zero included), a run  *)
(* with readable inputs and a writable output succeeds and the image has    *)
(* exactly the two labelled series Melanoma and Normal.                     *)
C3_TwoSeries ==
  /\ Success =>
       /\ LegendOf(Last.png.image) = <<"Melanoma", "Normal">>
       /\ Last.png.image.legend = <<"Melanoma", "Normal">>
  /\ (Ended /\ Readable(Last) /\ Writable(Last)) => Last.status = 0

C3_Witness == Success /\ Last.nv.rows = <<>> /\ Last.mel.rows # <<>>

IsPermutation(a, b) ==
  /\ Len(a) = Len(b)
  /\ \A i \in DOMAIN a :
       Cardinality({j \in DOMAIN a : a[j] = a[i]}) = Cardinality({j \in DOMAIN b : b[j] = a[i]})

\* the successful runs before the one that has just ended
Earlier == {i \in 1..(Len(log) - 1) : log[i].status = 0}

Reordered(r, q) ==
  IsPermutation(r.mel.rows, q.mel.rows) /\ IsPermutation(r.nv.rows, q.nv.rows)

(* C4: two runs whose input files hold the same rows in another order write *)
(* the same image, with the same 50 counts for each series.                 *)
C4_OrderIndependent ==
  Success => \A i \in Earlier : Reordered(log[i], Last) => log[i].png = Last.png

C4_Witness ==
  /\ Success
  /\ \E i \in Earlier : Reordered(log[i], Last) /\ ValuesOf(log[i].mel) # ValuesOf(Last.mel)

(* C5: two runs with the same pair of input files end with the same status  *)
(* and, on success, the same image, whatever output file was there before.  *)
C5_Deterministic ==
  Ended => \A i \in 1..(Len(log) - 1) :
             (log[i].mel = Last.mel /\ log[i].nv = Last.nv)
             => /\ log[i].status = Last.status
                /\ Last.status = 0 => log[i].png = Last.png

C5_Witness ==
  /\ Success
  /\ \E i \in Earlier :
       log[i].mel = Last.mel /\ log[i].nv = Last.nv /\ log[i].before # Last.before

(* C6: when a run has saved the image and ended, no figure is open, and no  *)
(* figure is open when the next run starts.                                 *)
C6_FigureReleased ==
  pc \in {"done", "load_mel", "load_nv", "figure"} => DOMAIN figures = {} /\ cur = 0

C6_Witness == pc = "done" /\ run > 1 /\ log[1].status = 0

(* C7: a successful run changes ratio_distribution.png and no other file;   *)
(* the file then holds the image of the current inputs.                     *)
C7_OnlyOutput ==
  /\ (pc \notin Terminal \/ ~edited) => \A f \in FileNames \ {PNG} : fs[f] = start[f]
  /\ pc \in {"load_mel", "load_nv", "figure", "hist_mel", "hist_nv", "decorate", "save"}
       => fs[PNG] = start[PNG]
  /\ Success
       => /\ fs[PNG].kind = "png"
          /\ fs[PNG].image.title = "Distribution of Ratios: Melanoma vs Normal"
          /\ fs[PNG].image.series =
               << Series("Melanoma", "red", ValuesOf(fs[MEL])),
                  Series("Normal", "blue", ValuesOf(fs[NV])) >>

C7_Witness == pc = "done" /\ start[PNG] = PngFile(StaleImage) /\ fs[MEL].rows # <<>>

SameRatios(r, q) ==
  ValuesOf(r.mel) = ValuesOf(q.mel) /\ ValuesOf(r.nv) = ValuesOf(q.nv)

(* C8: two runs whose files hold the same ratio values in the same order,   *)
(* under different identifiers, write the same image.                       *)
C8_IdentifierUnused ==
  Success => \A i \in Earlier : SameRatios(log[i], Last) => log[i].png = Last.png

C8_Witness ==
  /\ Success
  /\ Len(Last.mel.rows) > 1
  /\ \E i \in Earlier : SameRatios(log[i], Last) /\ log[i].mel # Last.mel

\* bin b of 50 equal-width bins over [0, 0.05]: half-open, the last one closed
BinWidth == (RangeHi - RangeLo) \div Bins
InBin(v, b) ==
  \/ RangeLo + b * BinWidth <= v /\ v < RangeLo + (b + 1) * BinWidth
  \/ b = Bins - 1 /\ v = RangeHi

CountInBin(vals, b) == Cardinality({i \in DOMAIN vals : InBin(vals[i], b)})

(* C9: each series counts, in each of 50 equal-width bins over [0, 0.05],   *)
(* the values of its own dataset that lie in that bin, so every value of    *)
(* [0, 0.05] is counted in exactly one bin, every other value in none, and  *)
(* the counts of one dataset do not depend on the other.                    *)
C9_EqualWidthBins ==
  Success =>
    /\ DOMAIN MelCounts(Last) = 0..(Bins - 1)
    /\ DOMAIN NvCounts(Last) = 0..(Bins - 1)
    /\ \A b \in 0..(Bins - 1) :
         /\ MelCounts(Last)[b] = CountInBin(ValuesOf(Last.mel), b)
         /\ NvCounts(Last)[b] = CountInBin(ValuesOf(Last.nv), b)

C9_Witness ==
  /\ Success
  /\ HowMany(ValuesOf(Last.mel), Closed) > 0
  /\ HowMany(ValuesOf(Last.nv), {RangeHi}) > 0
  /\ ValuesOf(Last.mel) # ValuesOf(Last.nv)

\* the order of the steps of one run
Successor ==
  [p \in {"load_mel", "load_nv", "figure", "hist_mel", "hist_nv", "decorate", "save", "close"} |->
     CASE p = "load_mel" -> "load_nv"
       [] p = "load_nv" -> "figure"
       [] p = "figure" -> "hist_mel"
       [] p = "hist_mel" -> "hist_nv"
       [] p = "hist_nv" -> "decorate"
       [] p = "decorate" -> "save"
       [] p = "save" -> "close"
       [] p = "close" -> "done"]

StraightLine ==
  /\ pc \notin Terminal => pc' \in {pc, Successor[pc], "failed"}
  /\ pc \in Terminal =>
       \/ pc' = pc /\ run' = run /\ status' = status
            /\ mel_data' = mel_data /\ nv_data' = nv_data /\ figures' = figures
       \/ pc' = "load_mel" /\ run' = run + 1
  /\ (pc = "close" /\ pc' = "done") =>
       /\ status' = 0
       /\ fs'[MEL].kind = "text" /\ mel_data' = ReadCsv(fs'[MEL].rows)
       /\ fs'[NV].kind = "text" /\ nv_data' = ReadCsv(fs'[NV].rows)
       /\ fs'[PNG].kind = "png" /\ Len(fs'[PNG].image.series) = 2
  /\ pc' = "failed" => status' = 1

(* C10: a run goes through load mel, load nv, figure, histogram mel,        *)
(* histogram nv, decorate, save, close in this order, each step once, and   *)
(* ends either in success (both datasets loaded, both series drawn, the     *)
(* file written, status 0) or in failure (non-zero status); after a failure *)
(* the run executes no further step.                                        *)
C10_StraightLine ==
  /\ [][StraightLine]_vars
  /\ [](pc = "load_mel" => <>(pc \in Terminal))

C10_Witness == pc = "failed" /\ Len(log) > 1 /\ fs[MEL].kind = "text" /\ fs[NV].kind = "text"
====
